---------------------------- MODULE Spec2Model ----------------------------
(***************************************************************************)
(* Model of the learning-path service of app.py: the four in-memory       *)
(* session tables, the course catalog, and the five request handlers       *)
(* together with the two pure functions they call (analyze_skill_gaps,     *)
(* recommend_courses).                                                     *)
(*                                                                         *)
(* Spec runs the handlers one request at a time; SpecPure calls the two    *)
(* pure functions on inputs of their own; SpecConc runs generate_path and  *)
(* update_progress on concurrent request threads.                          *)
(*                                                                         *)
(* Python strings that the code lower-cases or searches are sequences of   *)
(* one-character strings; a dict is a function whose DOMAIN is its key     *)
(* set, so that a missing key (KeyError) is a key outside the DOMAIN.      *)
(***************************************************************************)
EXTENDS Integers, Sequences, FiniteSets, TLC

(* ------------------------------ bounds -------------------------------- *)

\* the clock runs through the ticks 0..MaxClock
MaxClock == 1

(* --------------------------- string helpers --------------------------- *)

UpperChars == <<"A","B","C","D","E","F","G","H","I","J","K","L","M",
                "N","O","P","Q","R","S","T","U","V","W","X","Y","Z">>

LowerChars == <<"a","b","c","d","e","f","g","h","i","j","k","l","m",
                "n","o","p","q","r","s","t","u","v","w","x","y","z">>

\* the table str.lower() applies to one character
UpperToLower ==
  [c \in {UpperChars[i] : i \in 1..Len(UpperChars)} |->
     LowerChars[CHOOSE i \in 1..Len(UpperChars) : UpperChars[i] = c]]

\* str.lower() on one character
lower_char(c) == IF c \in DOMAIN UpperToLower THEN UpperToLower[c] ELSE c

\* str.lower()
lower(s) == [i \in 1..Len(s) |-> lower_char(s[i])]

\* Python's `sub in s` on strings
contains(s, sub) ==
  \E i \in 0..(Len(s) - Len(sub)) :
    \A j \in 1..Len(sub) : s[i + j] = sub[j]

RECURSIVE lstrip(_)
lstrip(s) == IF Len(s) > 0 /\ s[1] = " " THEN lstrip(Tail(s)) ELSE s

RECURSIVE rstrip(_)
rstrip(s) ==
  IF Len(s) > 0 /\ s[Len(s)] = " " THEN rstrip(SubSeq(s, 1, Len(s) - 1)) ELSE s

\* str.strip() (the model's strings hold no whitespace but the space)
strip(s) == rstrip(lstrip(s))

\* str.replace(" ", "-")
replace_space_hyphen(s) == [i \in 1..Len(s) |-> IF s[i] = " " THEN "-" ELSE s[i]]

(* ------------------------- analyze_skill_gaps ------------------------- *)

domain_requirements ==
  <<
     [domain |-> <<"c","o","m","p","u","t","e","r","-","s","c","i","e","n","c","e">>,
      skills |-> <<
        <<"P","r","o","g","r","a","m","m","i","n","g"," ","F","u","n","d","a","m","e","n","t","a","l","s">>,
        <<"D","a","t","a"," ","S","t","r","u","c","t","u","r","e","s">>,
        <<"A","l","g","o","r","i","t","h","m","s">>,
        <<"S","o","f","t","w","a","r","e"," ","E","n","g","i","n","e","e","r","i","n","g">> >>],
     [domain |-> <<"d","a","t","a","-","s","c","i","e","n","c","e">>,
      skills |-> <<
        <<"P","y","t","h","o","n">>,
        <<"S","t","a","t","i","s","t","i","c","s">>,
        <<"M","a","c","h","i","n","e"," ","L","e","a","r","n","i","n","g">>,
        <<"D","a","t","a"," ","A","n","a","l","y","s","i","s">> >>],
     [domain |-> <<"w","e","b","-","d","e","v","e","l","o","p","m","e","n","t">>,
      skills |-> <<
        <<"H","T","M","L">>,
        <<"C","S","S">>,
        <<"J","a","v","a","S","c","r","i","p","t">>,
        <<"R","e","a","c","t">>,
        <<"N","o","d","e",".","j","s">>,
        <<"D","a","t","a","b","a","s","e"," ","D","e","s","i","g","n">> >>],
     [domain |-> <<"m","o","b","i","l","e","-","d","e","v","e","l","o","p","m","e","n","t">>,
      skills |-> <<
        <<"M","o","b","i","l","e"," ","A","p","p"," ","D","e","s","i","g","n">>,
        <<"i","O","S"," ","D","e","v","e","l","o","p","m","e","n","t">>,
        <<"A","n","d","r","o","i","d"," ","D","e","v","e","l","o","p","m","e","n","t">>,
        <<"U","I","/","U","X">>,
        <<"A","P","I"," ","I","n","t","e","g","r","a","t","i","o","n">> >>],
     [domain |-> <<"c","y","b","e","r","s","e","c","u","r","i","t","y">>,
      skills |-> <<
        <<"N","e","t","w","o","r","k"," ","S","e","c","u","r","i","t","y">>,
        <<"E","t","h","i","c","a","l"," ","H","a","c","k","i","n","g">>,
        <<"C","r","y","p","t","o","g","r","a","p","h","y">>,
        <<"S","e","c","u","r","i","t","y"," ","A","n","a","l","y","s","i","s">> >>],
     [domain |-> <<"a","i","-","m","l">>,
      skills |-> <<
        <<"P","y","t","h","o","n">>,
        <<"M","a","c","h","i","n","e"," ","L","e","a","r","n","i","n","g">>,
        <<"D","e","e","p"," ","L","e","a","r","n","i","n","g">>,
        <<"N","e","u","r","a","l"," ","N","e","t","w","o","r","k","s">> >>],
     [domain |-> <<"b","u","s","i","n","e","s","s">>,
      skills |-> <<
        <<"B","u","s","i","n","e","s","s"," ","S","t","r","a","t","e","g","y">>,
        <<"M","a","r","k","e","t","i","n","g">>,
        <<"F","i","n","a","n","c","e">>,
        <<"M","a","n","a","g","e","m","e","n","t">> >>],
     [domain |-> <<"d","e","s","i","g","n">>,
      skills |-> <<
        <<"U","I","/","U","X"," ","D","e","s","i","g","n">>,
        <<"G","r","a","p","h","i","c"," ","D","e","s","i","g","n">>,
        <<"D","e","s","i","g","n"," ","T","o","o","l","s">>,
        <<"U","s","e","r"," ","R","e","s","e","a","r","c","h">> >>],
     [domain |-> <<"m","a","r","k","e","t","i","n","g">>,
      skills |-> <<
        <<"D","i","g","i","t","a","l"," ","M","a","r","k","e","t","i","n","g">>,
        <<"S","E","O">>,
        <<"C","o","n","t","e","n","t"," ","M","a","r","k","e","t","i","n","g">>,
        <<"A","n","a","l","y","t","i","c","s">> >>]
  >>

\* normalized_domain = target_domain.lower().strip().replace(" ", "-")
normalize_domain(target_domain) == replace_space_hyphen(strip(lower(target_domain)))

\* match_domain without the `normalized_domain in domain` alternative
RECURSIVE match_domain_one_way(_, _)
match_domain_one_way(normalized_domain, i) ==
  IF i > Len(domain_requirements)
  THEN domain_requirements[2].skills
  ELSE IF contains(normalized_domain, domain_requirements[i].domain)
       THEN domain_requirements[i].skills
       ELSE match_domain_one_way(normalized_domain, i + 1)

\* the `for domain in domain_requirements: ... break` loop and the
\* data-science fallback: the required-skill list that is selected
RECURSIVE match_domain(_, _)
match_domain(normalized_domain, i) ==
  IF i > Len(domain_requirements)
  THEN domain_requirements[2].skills
  ELSE IF \/ contains(normalized_domain, domain_requirements[i].domain)
          \/ contains(domain_requirements[i].domain, normalized_domain)
       THEN domain_requirements[i].skills
       ELSE match_domain(normalized_domain, i + 1)

\* the inner `for assessed_skill in assessment_skills` loop for one required
\* skill, from index i on: "KeyError" when a subscript of a missing key is
\* evaluated, "found" with the level at the first match, else "notfound"
RECURSIVE find_assessed(_, _, _)
find_assessed(skill, assessment_skills, i) ==
  IF i > Len(assessment_skills)
  THEN [kind |-> "notfound"]
  ELSE LET assessed_skill == assessment_skills[i] IN
       IF "name" \notin DOMAIN assessed_skill
       THEN [kind |-> "KeyError"]
       ELSE IF contains(lower(assessed_skill.name), lower(skill))
            THEN IF "level" \notin DOMAIN assessed_skill
                 THEN [kind |-> "KeyError"]
                 ELSE [kind |-> "found", level |-> assessed_skill.level]
            ELSE find_assessed(skill, assessment_skills, i + 1)

\* gaps_from with `assessed_skill['level'] < 2` for `<= 2`
RECURSIVE gaps_from_strict(_, _, _, _)
gaps_from_strict(required_skills, assessment_skills, i, skill_gaps) ==
  IF i > Len(required_skills)
  THEN [raised |-> FALSE, value |-> skill_gaps]
  ELSE LET skill == required_skills[i]
           r == find_assessed(skill, assessment_skills, 1)
       IN IF r.kind = "KeyError"
          THEN [raised |-> TRUE, value |-> <<>>]
          ELSE IF r.kind = "found"
               THEN IF r.level < 2
                    THEN gaps_from_strict(required_skills, assessment_skills, i + 1,
                           Append(skill_gaps,
                             [name |-> skill, current_level |-> r.level,
                              recommended_level |-> 4, priority |-> "High"]))
                    ELSE gaps_from_strict(required_skills, assessment_skills, i + 1, skill_gaps)
               ELSE gaps_from_strict(required_skills, assessment_skills, i + 1,
                      Append(skill_gaps,
                        [name |-> skill, current_level |-> 0,
                         recommended_level |-> 3, priority |-> "High"]))

\* the outer `for skill in required_skills` loop from index i on, with the
\* gaps collected so far
RECURSIVE gaps_from(_, _, _, _)
gaps_from(required_skills, assessment_skills, i, skill_gaps) ==
  IF i > Len(required_skills)
  THEN [raised |-> FALSE, value |-> skill_gaps]
  ELSE LET skill == required_skills[i]
           r == find_assessed(skill, assessment_skills, 1)
       IN IF r.kind = "KeyError"
          THEN [raised |-> TRUE, value |-> <<>>]
          ELSE IF r.kind = "found"
               THEN IF r.level <= 2
                    THEN gaps_from(required_skills, assessment_skills, i + 1,
                           Append(skill_gaps,
                             [name |-> skill, current_level |-> r.level,
                              recommended_level |-> 4, priority |-> "High"]))
                    ELSE gaps_from(required_skills, assessment_skills, i + 1, skill_gaps)
               ELSE gaps_from(required_skills, assessment_skills, i + 1,
                      Append(skill_gaps,
                        [name |-> skill, current_level |-> 0,
                         recommended_level |-> 3, priority |-> "High"]))

analyze_skill_gaps(assessment_skills, target_domain) ==
  gaps_from(match_domain(normalize_domain(target_domain), 1), assessment_skills, 1, <<>>)

(* -------------------------- recommend_courses ------------------------- *)

s_Beginner == <<"B","e","g","i","n","n","e","r">>

s_beginner == <<"b","e","g","i","n","n","e","r">>

s_video == <<"v","i","d","e","o">>

\* course.get(key, default) on a catalog row: the default only when the
\* catalog has no such column
row_get(columns, course, key, default) ==
  IF key \in columns THEN course[key] ELSE default

\* learner_profile.get(key, default)
profile_get(learner_profile, key, default) ==
  IF key \in DOMAIN learner_profile THEN learner_profile[key] ELSE default

\* Series.str.contains(pat) has regex=True: pat is compiled as a regular
\* expression and searched for. The patterns of this model hold letters,
\* digits, spaces, hyphens, "." (any character) and parentheses (a group).

\* nesting depth of the parentheses after the first i characters of pat;
\* -1 once a ")" has closed nothing
RECURSIVE paren_depth(_, _)
paren_depth(pat, i) ==
  IF i = 0 THEN 0
  ELSE LET before == paren_depth(pat, i - 1)
       IN IF before < 0 THEN -1
          ELSE IF pat[i] = "(" THEN before + 1
          ELSE IF pat[i] = ")" THEN before - 1
          ELSE before

\* re.compile(pat) succeeds; otherwise re.error
re_compiles(pat) == paren_depth(pat, Len(pat)) = 0

\* a group without alternatives or repetition matches what its content matches
is_paren(c) == c \in {"(", ")"}

strip_groups(pat) == SelectSeq(pat, LAMBDA c : ~is_paren(c))

\* pat, without groups, matches s from position k on
re_match_at(pat, s, k) ==
  \A j \in 1..Len(pat) : pat[j] = "." \/ pat[j] = s[k + j - 1]

\* re.search(pat, s) is not None
str_contains(s, pat) ==
  LET plain == strip_groups(pat)
  IN \E k \in 1..(Len(s) - Len(plain) + 1) : re_match_at(plain, s, k)

\* indices of the rows of domain_courses, in catalog order
domain_course_rows(df, target_domain) ==
  LET all == [i \in 1..Len(df.rows) |-> i]
      hit(i) == str_contains(lower(df.rows[i]["domain"]), target_domain)
      filtered == IF "domain" \in df.columns
                  THEN SelectSeq(all, hit)
                  ELSE all
  IN IF filtered = <<>> THEN all ELSE filtered

\* number of the gaps whose lower-cased name occurs in course_skills
RECURSIVE gap_hits(_, _, _)
gap_hits(skill_gaps, course_skills, i) ==
  IF i > Len(skill_gaps) THEN 0
  ELSE (IF contains(course_skills, lower(skill_gaps[i].name)) THEN 1 ELSE 0)
       + gap_hits(skill_gaps, course_skills, i + 1)

\* the score of one row (app.py lines 130-151)
course_score(learner_profile, skill_gaps, columns, course) ==
  LET course_skills == lower(row_get(columns, course, "skills", <<>>))
      experience == lower(profile_get(learner_profile, "experienceLevel", s_beginner))
      course_level == lower(row_get(columns, course, "level", s_beginner))
      learning_style == lower(profile_get(learner_profile, "learningStyle", s_video))
      course_format == lower(row_get(columns, course, "format", s_video))
  IN 3 * gap_hits(skill_gaps, course_skills, 1)
     + (IF experience = course_level THEN 2 ELSE 0)
     + (IF contains(course_format, learning_style) THEN 1 ELSE 0)

\* the dict appended to recommendations for one row
recommendation(columns, course, score) ==
  [title |-> row_get(columns, course, "title", "Unknown Course"),
   provider |-> row_get(columns, course, "provider", "Unknown"),
   level |-> row_get(columns, course, "level", s_Beginner),
   duration |-> row_get(columns, course, "duration", "N/A"),
   rating |-> row_get(columns, course, "rating", 0),
   students |-> row_get(columns, course, "students", "N/A"),
   description |-> row_get(columns, course, "description", ""),
   score |-> score]

\* insert_by_score that puts x before the entries of equal score
RECURSIVE insert_by_score_unstable(_, _)
insert_by_score_unstable(sorted, x) ==
  IF sorted = <<>> THEN <<x>>
  ELSE IF sorted[1].score > x.score
       THEN <<sorted[1]>> \o insert_by_score_unstable(Tail(sorted), x)
       ELSE <<x>> \o sorted

\* list.sort(key=score, reverse=True) is stable: x goes behind every entry
\* whose score is at least its own
RECURSIVE insert_by_score(_, _)
insert_by_score(sorted, x) ==
  IF sorted = <<>> THEN <<x>>
  ELSE IF sorted[1].score >= x.score
       THEN <<sorted[1]>> \o insert_by_score(Tail(sorted), x)
       ELSE <<x>> \o sorted

RECURSIVE sort_by_score(_, _)
sort_by_score(recommendations, i) ==
  IF i = 0 THEN <<>>
  ELSE insert_by_score(sort_by_score(recommendations, i - 1), recommendations[i])

\* recommendations[:10]
TopN == 10

fallback_course ==
  [title |-> "Python for Data Science",
   provider |-> "Udemy",
   level |-> s_Beginner,
   duration |-> "30 hours",
   rating |-> 46,
   students |-> "100,000+",
   description |-> "Complete Python guide for Data Science",
   score |-> 5]

\* the rows of domain_courses that score at least 1, as recommendations,
\* in iteration order
RECURSIVE scored_rows(_, _, _, _, _)
scored_rows(learner_profile, skill_gaps, df, idx, i) ==
  IF i > Len(idx) THEN <<>>
  ELSE LET course == df.rows[idx[i]]
           score == course_score(learner_profile, skill_gaps, df.columns, course)
           rest == scored_rows(learner_profile, skill_gaps, df, idx, i + 1)
       IN IF score >= 1
          THEN <<recommendation(df.columns, course, score)>> \o rest
          ELSE rest

\* df is the module-level courses_df: [loaded |-> FALSE] for None. The result
\* is [raised |-> TRUE] when str.contains cannot compile the pattern.
recommend_courses(learner_profile, assessment_skills, skill_gaps, df) ==
  IF df.loaded /\ df.rows # <<>> /\ df.columns # {}
  THEN LET target_domain == lower(profile_get(learner_profile, "currentDomain", <<>>))
       IN IF "domain" \in df.columns /\ ~re_compiles(target_domain)
          THEN [raised |-> TRUE, value |-> <<>>]
          ELSE LET idx == domain_course_rows(df, target_domain)
                   unsorted == scored_rows(learner_profile, skill_gaps, df, idx, 1)
                   recommendations == sort_by_score(unsorted, Len(unsorted))
               IN IF recommendations # <<>>
                  THEN [raised |-> FALSE,
                        value |-> SubSeq(recommendations, 1,
                                    IF Len(recommendations) < TopN
                                    THEN Len(recommendations) ELSE TopN)]
                  ELSE [raised |-> FALSE, value |-> <<fallback_course>>]
  ELSE [raised |-> FALSE, value |-> <<fallback_course>>]

(* ------------------------------- state -------------------------------- *)

VARIABLES
  now,               \* the value datetime.now() returns, in clock ticks
  courses_df,        \* the catalog load_datasets() produced at import
  learner_profiles,  \* user id -> LearnerProfile
  skill_assessments, \* user id -> SkillAssessment
  learning_paths,    \* user id -> LearningPath
  progress_data,     \* user id -> ProgressRecord
  call,              \* a call of one of the two pure functions, with its result
  threads            \* request threads that are inside a handler, with their locals

vars == <<now, courses_df, learner_profiles, skill_assessments,
          learning_paths, progress_data, call, threads>>

\* what the request handlers, run one at a time, never touch
aux == <<call, threads>>

tables == <<learner_profiles, skill_assessments, learning_paths, progress_data>>

\* ticks of the clock in one second
TicksPerSecond == 1

\* f"user_{datetime.now().strftime('%Y%m%d%H%M%S')}": the time truncated to
\* whole seconds
mint_user_id(t) == t \div TicksPerSecond

\* datetime.now().isoformat(): the time at full resolution
isoformat(t) == t

\* round(num / den, digits) as an integer count of 10^-digits units, ties to
\* even (den > 0, scale = 10^digits)
round_div(num, den, scale) ==
  LET q == (num * scale) \div den
      r == (num * scale) % den
  IN IF 2 * r > den THEN q + 1
     ELSE IF 2 * r < den THEN q
     ELSE IF q % 2 = 0 THEN q ELSE q + 1

\* dict assignment d[k] = v
put(d, k, v) == [x \in (DOMAIN d) \cup {k} |-> IF x = k THEN v ELSE d[x]]

(* ------------------------------ /register ----------------------------- *)

required_fields ==
  <<"fullName", "age", "educationLevel", "currentDomain",
    "careerGoal", "experienceLevel", "learningStyle", "weeklyStudyHours">>

\* the first required field that data lacks, or "" when none is missing
first_missing_field(data) ==
  LET missing == {i \in 1..Len(required_fields) : required_fields[i] \notin DOMAIN data}
  IN IF missing = {} THEN ""
     ELSE required_fields[CHOOSE i \in missing : \A j \in missing : i <= j]

\* {'userId': user_id, **data, 'registeredAt': ...}: a later key wins
new_profile(user_id, data, t) ==
  [k \in (DOMAIN data) \cup {"userId", "registeredAt"} |->
     IF k = "registeredAt" THEN isoformat(t)
     ELSE IF k \in DOMAIN data THEN data[k]
     ELSE user_id]

\* register_learner with the profile stored before the fields are validated
register_learner_store_first(data, t, profiles) ==
  LET field == first_missing_field(data)
      user_id == mint_user_id(t)
      stored == put(profiles, user_id, new_profile(user_id, data, t))
  IN IF field # ""
     THEN [status |-> 400, profiles |-> stored, body |-> [error |-> field]]
     ELSE [status |-> 201, profiles |-> stored,
           body |-> [userId |-> user_id, profile |-> new_profile(user_id, data, t)]]

register_learner(data, t, profiles) ==
  LET field == first_missing_field(data)
      user_id == mint_user_id(t)
  IN IF field # ""
     THEN [status |-> 400, profiles |-> profiles,
           body |-> [error |-> field]]
     ELSE [status |-> 201,
           profiles |-> put(profiles, user_id, new_profile(user_id, data, t)),
           body |-> [userId |-> user_id, profile |-> new_profile(user_id, data, t)]]

(* ----------------------------- /assessment ---------------------------- *)

\* isinstance(v, list): a JSON value is [list |-> <<...>>] when it is an
\* array and [other |-> ...] when it is anything else
is_list(v) == "list" \in DOMAIN v

\* sum(skill.get('level', 0) for skill in skills)
RECURSIVE sum_levels(_, _)
sum_levels(skills, i) ==
  IF i > Len(skills) THEN 0
  ELSE (IF "level" \in DOMAIN skills[i] THEN skills[i].level ELSE 0)
       + sum_levels(skills, i + 1)

\* new_assessment with the average cut off after two decimals
new_assessment_truncated(user_id, skills, t) ==
  LET total_skills == Len(skills)
      total_score == sum_levels(skills, 1)
  IN [userId |-> user_id,
      skills |-> skills,
      totalSkills |-> total_skills,
      totalScore |-> total_score,
      averageLevel |-> IF total_skills > 0
                       THEN (total_score * 100) \div total_skills
                       ELSE 0,
      assessedAt |-> isoformat(t)]

\* the record stored in skill_assessments; averageLevel in hundredths
new_assessment(user_id, skills, t) ==
  LET total_skills == Len(skills)
      total_score == sum_levels(skills, 1)
  IN [userId |-> user_id,
      skills |-> skills,
      totalSkills |-> total_skills,
      totalScore |-> total_score,
      averageLevel |-> IF total_skills > 0
                       THEN round_div(total_score, total_skills, 100)
                       ELSE 0,
      assessedAt |-> isoformat(t)]

\* submit_assessment without the `user_id not in learner_profiles` check
submit_assessment_unchecked(data, t, profiles, assessments) ==
  IF "userId" \notin DOMAIN data
  THEN [status |-> 400, assessments |-> assessments, body |-> [error |-> "userId"]]
  ELSE IF "skills" \notin DOMAIN data \/ ~is_list(data.skills)
  THEN [status |-> 400, assessments |-> assessments, body |-> [error |-> "skills"]]
  ELSE LET a == new_assessment(data.userId, data.skills.list, t)
       IN [status |-> 200,
           assessments |-> put(assessments, data.userId, a),
           body |-> [assessment |-> a]]

submit_assessment(data, t, profiles, assessments) ==
  IF "userId" \notin DOMAIN data
  THEN [status |-> 400, assessments |-> assessments, body |-> [error |-> "userId"]]
  ELSE IF "skills" \notin DOMAIN data \/ ~is_list(data.skills)
  THEN [status |-> 400, assessments |-> assessments, body |-> [error |-> "skills"]]
  ELSE IF data.userId \notin DOMAIN profiles
  THEN [status |-> 404, assessments |-> assessments, body |-> [error |-> "User not found"]]
  ELSE LET a == new_assessment(data.userId, data.skills.list, t)
       IN [status |-> 200,
           assessments |-> put(assessments, data.userId, a),
           body |-> [assessment |-> a]]

(* ---------------------------- /generate-path -------------------------- *)

\* 'Beginner' if current_level == 0 else 'Intermediate' if <= 2 else 'Advanced'
skill_level_label(current_level) ==
  IF current_level = 0 THEN "Beginner"
  ELSE IF current_level <= 2 THEN "Intermediate"
  ELSE "Advanced"

\* the recommended_skills comprehension; the description f-string is kept
\* as the pair of values it formats
recommended_skills_of(skill_gaps) ==
  [i \in 1..Len(skill_gaps) |->
     [name |-> skill_gaps[i].name,
      description |-> <<"Develop", skill_gaps[i].name, skill_gaps[i].recommended_level>>,
      level |-> skill_level_label(skill_gaps[i].current_level),
      priority |-> skill_gaps[i].priority]]

new_learning_path(user_id, t, recommended_skills, recommended_courses, skill_gaps) ==
  [userId |-> user_id,
   generatedAt |-> isoformat(t),
   skills |-> recommended_skills,
   courses |-> recommended_courses,
   totalSkills |-> Len(recommended_skills),
   totalCourses |-> Len(recommended_courses),
   skillGaps |-> skill_gaps]

\* initial_progress with 'Beginner' for every skill's level label
initial_progress_unlabelled(recommended_skills, recommended_courses) ==
  [skills |-> [i \in 1..Len(recommended_skills) |->
                 [name |-> recommended_skills[i].name,
                  progress |-> 0,
                  level |-> "Beginner"]],
   courses |-> [i \in 1..Len(recommended_courses) |->
                  [title |-> recommended_courses[i].title,
                   provider |-> recommended_courses[i].provider,
                   progress |-> 0,
                   status |-> "not-started"]]]

\* the dict built at app.py lines 339-349
initial_progress(recommended_skills, recommended_courses) ==
  [skills |-> [i \in 1..Len(recommended_skills) |->
                 [name |-> recommended_skills[i].name,
                  progress |-> 0,
                  level |-> recommended_skills[i].level]],
   courses |-> [i \in 1..Len(recommended_courses) |->
                  [title |-> recommended_courses[i].title,
                   provider |-> recommended_courses[i].provider,
                   progress |-> 0,
                   status |-> "not-started"]]]

\* the progress initialisation without its `not in progress_data` guard
init_progress_always(progress, user_id, recommended_skills, recommended_courses) ==
  put(progress, user_id, initial_progress(recommended_skills, recommended_courses))

\* `if user_id not in progress_data: progress_data[user_id] = {...}`
init_progress_if_absent(progress, user_id, recommended_skills, recommended_courses) ==
  IF user_id \notin DOMAIN progress
  THEN put(progress, user_id, initial_progress(recommended_skills, recommended_courses))
  ELSE progress

generate_learning_path(data, t, df, profiles, assessments, paths, progress) ==
  IF "userId" \notin DOMAIN data
  THEN [status |-> 400, paths |-> paths, progress |-> progress,
        body |-> [error |-> "userId"]]
  ELSE IF data.userId \notin DOMAIN profiles
  THEN [status |-> 404, paths |-> paths, progress |-> progress,
        body |-> [error |-> "User not found"]]
  ELSE IF data.userId \notin DOMAIN assessments
  THEN [status |-> 404, paths |-> paths, progress |-> progress,
        body |-> [error |-> "Assessment not found"]]
  ELSE LET user_id == data.userId
           profile == profiles[user_id]
           assessment == assessments[user_id]
           analysis == analyze_skill_gaps(assessment.skills, profile["currentDomain"])
       IN IF analysis.raised
          THEN \* KeyError caught by `except Exception`
               [status |-> 500, paths |-> paths, progress |-> progress,
                body |-> [error |-> "KeyError"]]
          ELSE LET skill_gaps == analysis.value
                   recommended_skills == recommended_skills_of(skill_gaps)
                   recommendation_call ==
                     recommend_courses(profile, assessment.skills, skill_gaps, df)
                   recommended_courses == recommendation_call.value
                   learning_path ==
                     new_learning_path(user_id, t, recommended_skills,
                                       recommended_courses, skill_gaps)
               IN IF recommendation_call.raised
                  THEN \* re.error caught by `except Exception`
                       [status |-> 500, paths |-> paths, progress |-> progress,
                        body |-> [error |-> "re.error"]]
                  ELSE [status |-> 200,
                        paths |-> put(paths, user_id, learning_path),
                        progress |-> init_progress_if_absent(progress, user_id,
                                       recommended_skills, recommended_courses),
                        body |-> [learningPath |-> learning_path]]

(* -------------------------- /dashboard/<user_id> ---------------------- *)

\* sum(c.get('progress', 0) for c in seq)
RECURSIVE sum_progress(_, _)
sum_progress(seq, i) ==
  IF i > Len(seq) THEN 0 ELSE seq[i].progress + sum_progress(seq, i + 1)

\* the completed count with `>= 100` for `== 100`
count_completed_at_least(courses) ==
  Cardinality({i \in 1..Len(courses) : courses[i].progress >= 100})

\* len([c for c in courses if c.get('progress', 0) == 100])
count_completed(courses) ==
  Cardinality({i \in 1..Len(courses) : courses[i].progress = 100})

\* len([c for c in courses if 0 < c.get('progress', 0) < 100])
count_in_progress(courses) ==
  Cardinality({i \in 1..Len(courses) : 0 < courses[i].progress /\ courses[i].progress < 100})

\* len([s for s in skills if s.get('progress', 0) >= 80])
count_mastered(skills) ==
  Cardinality({i \in 1..Len(skills) : skills[i].progress >= 80})

\* level_values.get(label, 1)
level_value(label) ==
  IF label = "Intermediate" THEN 2 ELSE IF label = "Advanced" THEN 3 ELSE 1

RECURSIVE sum_level_values(_, _)
sum_level_values(skills, i) ==
  IF i > Len(skills) THEN 0
  ELSE level_value(skills[i].level) + sum_level_values(skills, i + 1)

\* the dashboard_data dict; the rounded figures in tenths
dashboard_of(user_id, user_progress) ==
  LET courses == user_progress.courses
      skills == user_progress.skills
      total_courses == Len(courses)
      total_skills == Len(skills)
      overall_progress ==
        IF total_courses > 0
        THEN round_div(sum_progress(courses, 1), total_courses, 10)
        ELSE 0
  IN [userId |-> user_id,
      statistics |->
        [totalCourses |-> total_courses,
         completedCourses |-> count_completed(courses),
         inProgressCourses |-> count_in_progress(courses),
         overallProgress |-> overall_progress],
      skills |-> skills,
      courses |-> courses,
      summary |->
        [totalSkills |-> total_skills,
         masteredSkills |-> count_mastered(skills),
         averageSkillLevel |->
           IF total_skills > 0
           THEN round_div(sum_level_values(skills, 1), total_skills, 10)
           ELSE 0,
         hoursCompleted |-> round_div(sum_progress(courses, 1) * 40, 100, 10),
         completionRate |-> overall_progress]]

\* get_dashboard_data with progress_data.setdefault(user_id, {...}) for .get
get_dashboard_data_setdefault(user_id, profiles, progress) ==
  IF user_id \notin DOMAIN profiles
  THEN [status |-> 404, progress |-> progress, body |-> [error |-> "User not found"]]
  ELSE LET stored == IF user_id \in DOMAIN progress
                     THEN progress
                     ELSE put(progress, user_id, [skills |-> <<>>, courses |-> <<>>])
       IN [status |-> 200, progress |-> stored,
           body |-> [dashboard |-> dashboard_of(user_id, stored[user_id])]]

\* progress_data.get(user_id, {...}) reads the table and stores nothing
get_dashboard_data(user_id, profiles, progress) ==
  IF user_id \notin DOMAIN profiles
  THEN [status |-> 404, progress |-> progress, body |-> [error |-> "User not found"]]
  ELSE LET user_progress ==
             IF user_id \in DOMAIN progress
             THEN progress[user_id]
             ELSE [skills |-> <<>>, courses |-> <<>>]
       IN [status |-> 200, progress |-> progress,
           body |-> [dashboard |-> dashboard_of(user_id, user_progress)]]

(* --------------------------- /update-progress ------------------------- *)

\* the inner `for skill in progress_data[user_id]['skills']` loop from
\* index i on, for one entry of data['skillProgress']
RECURSIVE apply_skill_update(_, _, _)
apply_skill_update(skills, skill_update, i) ==
  IF i > Len(skills)
  THEN [raised |-> FALSE, value |-> skills]
  ELSE IF "name" \notin DOMAIN skill_update
  THEN [raised |-> TRUE, value |-> skills]
  ELSE IF skills[i].name = skill_update.name
  THEN IF "progress" \notin DOMAIN skill_update
       THEN [raised |-> TRUE, value |-> skills]
       ELSE [raised |-> FALSE,
             value |-> [skills EXCEPT ![i].progress = skill_update.progress]]
  ELSE apply_skill_update(skills, skill_update, i + 1)

\* the `for skill_update in data['skillProgress']` loop from entry k on;
\* the list is mutated in place, so what was written before a KeyError stays
RECURSIVE apply_skill_updates(_, _, _)
apply_skill_updates(skills, updates, k) ==
  IF k > Len(updates)
  THEN [raised |-> FALSE, value |-> skills]
  ELSE LET r == apply_skill_update(skills, updates[k], 1)
       IN IF r.raised THEN r
          ELSE apply_skill_updates(r.value, updates, k + 1)

\* the status rule with `>= 100` for `== 100`
course_status_at_least(progress, status) ==
  IF progress >= 100 THEN "completed"
  ELSE IF progress > 0 THEN "in-progress"
  ELSE status

\* the status rule with a final `else: status = 'not-started'`
course_status_reset(progress, status) ==
  IF progress = 100 THEN "completed"
  ELSE IF progress > 0 THEN "in-progress"
  ELSE "not-started"

\* app.py lines 455-458: the status a matched course gets
course_status(progress, status) ==
  IF progress = 100 THEN "completed"
  ELSE IF progress > 0 THEN "in-progress"
  ELSE status

\* the course a matched entry leaves behind
updated_course(course, course_update) ==
  [course EXCEPT !.progress = course_update.progress,
                 !.status = course_status(course_update.progress, course.status)]

\* the index of the course an entry with this title is applied to, from
\* index i on; 0 when no course has the title
RECURSIVE matching_course(_, _, _)
matching_course(courses, title, i) ==
  IF i > Len(courses) THEN 0
  ELSE IF courses[i].title = title THEN i
  ELSE matching_course(courses, title, i + 1)

\* apply_course_update that adds an entry for a title no course has
apply_course_update_upsert(courses, course_update) ==
  IF courses = <<>>
  THEN [raised |-> FALSE, value |-> courses]
  ELSE IF "title" \notin DOMAIN course_update
  THEN [raised |-> TRUE, value |-> courses]
  ELSE LET i == matching_course(courses, course_update.title, 1)
       IN IF "progress" \notin DOMAIN course_update
          THEN [raised |-> i # 0, value |-> courses]
          ELSE IF i = 0
          THEN [raised |-> FALSE,
                value |-> Append(courses,
                            [title |-> course_update.title, provider |-> "Unknown",
                             progress |-> course_update.progress,
                             status |-> course_status(course_update.progress, "not-started")])]
          ELSE [raised |-> FALSE,
                value |-> [courses EXCEPT ![i] = updated_course(courses[i], course_update)]]

\* the inner `for course in progress_data[user_id]['courses']` loop for one
\* entry of data['courseProgress']
apply_course_update(courses, course_update) ==
  IF courses = <<>>
  THEN [raised |-> FALSE, value |-> courses]
  ELSE IF "title" \notin DOMAIN course_update
  THEN [raised |-> TRUE, value |-> courses]
  ELSE LET i == matching_course(courses, course_update.title, 1)
       IN IF i = 0
          THEN [raised |-> FALSE, value |-> courses]
          ELSE IF "progress" \notin DOMAIN course_update
          THEN [raised |-> TRUE, value |-> courses]
          ELSE [raised |-> FALSE,
                value |-> [courses EXCEPT ![i] = updated_course(courses[i], course_update)]]

RECURSIVE apply_course_updates(_, _, _)
apply_course_updates(courses, updates, k) ==
  IF k > Len(updates)
  THEN [raised |-> FALSE, value |-> courses]
  ELSE LET r == apply_course_update(courses, updates[k])
       IN IF r.raised THEN r
          ELSE apply_course_updates(r.value, updates, k + 1)

update_progress(data, progress) ==
  IF "userId" \notin DOMAIN data
  THEN [status |-> 400, progress |-> progress, body |-> [error |-> "userId"]]
  ELSE IF data.userId \notin DOMAIN progress
  THEN [status |-> 404, progress |-> progress, body |-> [error |-> "User progress not found"]]
  ELSE LET user_id == data.userId
           record == progress[user_id]
           s == IF "skillProgress" \in DOMAIN data
                THEN apply_skill_updates(record.skills, data.skillProgress, 1)
                ELSE [raised |-> FALSE, value |-> record.skills]
           c == IF ~s.raised /\ "courseProgress" \in DOMAIN data
                THEN apply_course_updates(record.courses, data.courseProgress, 1)
                ELSE [raised |-> FALSE, value |-> record.courses]
           written == put(progress, user_id, [skills |-> s.value, courses |-> c.value])
       IN IF s.raised \/ c.raised
          THEN \* KeyError caught by `except Exception`
               [status |-> 500, progress |-> written, body |-> [error |-> "KeyError"]]
          ELSE [status |-> 200, progress |-> written,
                body |-> [progress |-> written[user_id]]]

(* ------------------------------- inputs ------------------------------- *)

s_WebDevelopment == <<"W","e","b"," ","D","e","v","e","l","o","p","m","e","n","t">>

s_Design == <<"D","e","s","i","g","n">>

s_intermediate == <<"i","n","t","e","r","m","e","d","i","a","t","e">>

s_text == <<"t","e","x","t">>

s_HTML == <<"H","T","M","L">>

s_CSS == <<"C","S","S">>

s_JavaScript == <<"J","a","v","a","S","c","r","i","p","t">>

s_React == <<"R","e","a","c","t">>

s_NodeJs == <<"N","o","d","e",".","j","s">>

s_DatabaseDesign == <<"D","a","t","a","b","a","s","e"," ","D","e","s","i","g","n">>

s_GraphicDesign == <<"G","r","a","p","h","i","c"," ","D","e","s","i","g","n">>

s_Intermediate == <<"I","n","t","e","r","m","e","d","i","a","t","e">>

s_Advanced == <<"A","d","v","a","n","c","e","d">>

s_Video == <<"V","i","d","e","o">>

s_Text == <<"T","e","x","t">>

s_skills1 == <<"H","T","M","L",","," ","C","S","S",","," ","J","a","v","a","S","c","r","i","p","t">>

s_skills2 == <<"R","e","a","c","t",","," ","R","e","d","u","x">>

s_skills3 == <<"N","o","d","e",".","j","s",","," ","E","x","p","r","e","s","s">>

s_skills4 == <<"G","r","a","p","h","i","c"," ","D","e","s","i","g","n",","," ","D","e","s","i","g","n"," ","T","o","o","l","s">>

\* data/courses.csv as load_datasets() may find it: absent (None), or a
\* table with the columns recommend_courses reads; two rows share a title
catalog_none == [loaded |-> FALSE]

catalog_columns ==
  {"domain", "skills", "level", "format", "title", "provider",
   "duration", "rating", "students", "description"}

catalog_row(domain, skills, level, format, title, provider) ==
  [domain |-> domain, skills |-> skills, level |-> level, format |-> format,
   title |-> title, provider |-> provider, duration |-> "40 hours",
   rating |-> 45, students |-> "1,000+", description |-> ""]

catalog_web ==
  [loaded |-> TRUE,
   columns |-> catalog_columns,
   rows |-> <<
     catalog_row(s_WebDevelopment, s_skills2, s_Intermediate, s_Video,
                 "React - The Complete Guide", "Udemy"),
     catalog_row(s_WebDevelopment, s_skills1, s_Beginner, s_Video,
                 "Complete JavaScript Course 2024", "Udemy"),
     catalog_row(s_WebDevelopment, s_skills3, s_Advanced, s_Text,
                 "Complete JavaScript Course 2024", "Coursera"),
     catalog_row(s_GraphicDesign, s_skills4, s_Intermediate, s_Text,
                 "Design Basics", "edX") >>]

Catalogs == {catalog_none, catalog_web}

\* request bodies of POST /register
profile_ann ==
  [fullName |-> "Ann", age |-> 22, educationLevel |-> "Bachelor's Degree",
   currentDomain |-> s_WebDevelopment, careerGoal |-> "Become a full-stack developer",
   experienceLevel |-> s_beginner, learningStyle |-> s_video,
   weeklyStudyHours |-> 10]

profile_bob ==
  [fullName |-> "Bob", age |-> 30, educationLevel |-> "Master's Degree",
   currentDomain |-> s_Design, careerGoal |-> "Become a designer",
   experienceLevel |-> s_intermediate, learningStyle |-> s_text,
   weeklyStudyHours |-> 5, userId |-> mint_user_id(MaxClock) + 1]

profile_incomplete ==
  [fullName |-> "Cy", age |-> 40, educationLevel |-> "PhD",
   currentDomain |-> s_Design, careerGoal |-> "Unknown",
   experienceLevel |-> s_beginner, learningStyle |-> s_video]

RegisterBodies == {profile_ann, profile_bob, profile_incomplete}

\* user ids the requests after registration name: the first id the clock
\* mints, and one that no registration ever mints
RequestUserIds == {mint_user_id(0), mint_user_id(MaxClock) + 1}

\* skills arrays of POST /assessment: the one of test_api.py, the empty
\* one, and one with entries that lack 'name' or 'level', whose levels do
\* not divide evenly
skills_test ==
  <<[name |-> s_JavaScript, level |-> 3], [name |-> s_React, level |-> 2],
    [name |-> s_NodeJs, level |-> 1], [name |-> s_DatabaseDesign, level |-> 2]>>

skills_nameless == <<[level |-> 3], [level |-> 2], [name |-> s_CSS]>>

SkillLists == {skills_test, <<>>, skills_nameless}

AssessmentBodies ==
  [userId : RequestUserIds, skills : {[list |-> l] : l \in SkillLists}]
  \cup [userId : RequestUserIds, skills : {[other |-> "JavaScript"]}]
  \cup [userId : RequestUserIds]
  \cup {[skills |-> [list |-> skills_test]]}

GeneratePathBodies == [userId : RequestUserIds] \cup {[other |-> 0]}

\* request bodies of POST /update-progress
update_mixed(u) ==
  [userId |-> u,
   skillProgress |-> <<[name |-> s_HTML, progress |-> 80]>>,
   courseProgress |-> <<[title |-> "Complete JavaScript Course 2024", progress |-> 100],
                        [title |-> "No Such Course", progress |-> 30]>>]

update_courses(u) ==
  [userId |-> u,
   courseProgress |-> <<[title |-> "Complete JavaScript Course 2024", progress |-> 100],
                        [title |-> "Complete JavaScript Course 2024", progress |-> 0],
                        [title |-> "React - The Complete Guide", progress |-> 60]>>]

update_out_of_range(u) ==
  [userId |-> u,
   courseProgress |-> <<[title |-> "React - The Complete Guide", progress |-> 150]>>]

update_malformed(u) ==
  [userId |-> u,
   skillProgress |-> <<[name |-> s_HTML, progress |-> 45], [name |-> s_React]>>]

UpdateBodies ==
  {update_mixed(u) : u \in RequestUserIds}
  \cup {update_courses(u) : u \in RequestUserIds}
  \cup {update_out_of_range(u) : u \in RequestUserIds}
  \cup {update_malformed(u) : u \in RequestUserIds}
  \cup [userId : RequestUserIds]
  \cup {[other |-> 0]}

(* ------------------------------ behaviour ----------------------------- *)

no_call == [fn |-> "none"]

Init ==
  /\ now = 0
  /\ courses_df \in Catalogs
  /\ learner_profiles = <<>>
  /\ skill_assessments = <<>>
  /\ learning_paths = <<>>
  /\ progress_data = <<>>
  /\ call = no_call
  /\ threads = <<>>

\* time passes between two readings of the clock
Tick ==
  /\ now < MaxClock
  /\ now' = now + 1
  /\ UNCHANGED <<courses_df, tables, aux>>

Register ==
  \E data \in RegisterBodies :
    /\ learner_profiles' = register_learner(data, now, learner_profiles).profiles
    /\ UNCHANGED <<now, courses_df, skill_assessments, learning_paths, progress_data, aux>>

SubmitAssessment ==
  \E data \in AssessmentBodies :
    /\ skill_assessments' =
         submit_assessment(data, now, learner_profiles, skill_assessments).assessments
    /\ UNCHANGED <<now, courses_df, learner_profiles, learning_paths, progress_data, aux>>

GeneratePath ==
  \E data \in GeneratePathBodies :
    LET r == generate_learning_path(data, now, courses_df, learner_profiles,
                                    skill_assessments, learning_paths, progress_data) IN
      /\ learning_paths' = r.paths
      /\ progress_data' = r.progress
      /\ UNCHANGED <<now, courses_df, learner_profiles, skill_assessments, aux>>

UpdateProgress ==
  \E data \in UpdateBodies :
    /\ progress_data' = update_progress(data, progress_data).progress
    /\ UNCHANGED <<now, courses_df, learner_profiles, skill_assessments, learning_paths, aux>>

GetDashboard ==
  \E user_id \in RequestUserIds :
    /\ progress_data' = get_dashboard_data(user_id, learner_profiles, progress_data).progress
    /\ UNCHANGED <<now, courses_df, learner_profiles, skill_assessments, learning_paths, aux>>

Next ==
  \/ Tick
  \/ Register
  \/ SubmitAssessment
  \/ GeneratePath
  \/ UpdateProgress
  \/ GetDashboard

Spec == Init /\ [][Next]_vars

(* ------------------- the two pure functions on their own --------------- *)

s_AiMlPadded == <<" "," ","A","I","-","M","L"," ">>

s_science == <<"s","c","i","e","n","c","e">>

s_Quantum == <<"Q","u","a","n","t","u","m"," ","C","o","m","p","u","t","i","n","g">>

s_Marketing == <<"M","a","r","k","e","t","i","n","g">>

s_ml == <<"m","l">>

s_DataScience == <<"D","a","t","a"," ","S","c","i","e","n","c","e">>

s_MobileAndDesign == <<"M","o","b","i","l","e"," ","D","e","v","e","l","o","p","m","e","n","t"," ","a","n","d"," ","D","e","s","i","g","n">>

s_CyberSecurity == <<"c","y","b","e","r"," ","s","e","c","u","r","i","t","y">>

s_ReactNative == <<"R","e","a","c","t"," ","N","a","t","i","v","e">>

s_htmlcss == <<"h","t","m","l"," ","a","n","d"," ","c","s","s">>

s_Python == <<"P","y","t","h","o","n">>

s_MachineLearning == <<"M","a","c","h","i","n","e"," ","L","e","a","r","n","i","n","g">>

\* the longest assessed-skill list the analyzer is called with
MaxSkills == 2

\* assessed skills as the analyzer's contract has them, {name, level}: two
\* whose names contain the same required skill, one that names two required
\* skills in lower case, one with a level of 0
SkillPool ==
  {[name |-> s_React, level |-> 1], [name |-> s_ReactNative, level |-> 4],
   [name |-> s_JavaScript, level |-> 3], [name |-> s_htmlcss, level |-> 2],
   [name |-> s_Python, level |-> 5], [name |-> s_MachineLearning, level |-> 0]}

\* the sequences over S of length at most n
RECURSIVE seqs_up_to(_, _)
seqs_up_to(S, n) ==
  IF n = 0 THEN {<<>>}
  ELSE LET shorter == seqs_up_to(S, n - 1)
       IN shorter \cup {Append(s, x) : s \in shorter, x \in S}

PureSkillLists == seqs_up_to(SkillPool, MaxSkills) \cup {skills_test}

\* target domains: known keys in other spellings, one inside two keys, one
\* holding two keys, the empty one, and ones that match no key
PureDomains ==
  {s_WebDevelopment, s_AiMlPadded, s_science, s_Quantum, <<>>, s_Design,
   s_Marketing, s_ml, s_DataScience, s_MobileAndDesign, s_CyberSecurity}

s_DotNet == <<".","N","E","T">>

s_OpenParen == <<"A","I"," ","(">>

s_audio == <<"a","u","d","i","o">>

s_Internet == <<"I","n","t","e","r","n","e","t"," ","o","f"," ","T","h","i","n","g","s">>

s_ReactJs == <<"R","e","a","c","t",","," ","J","a","v","a","S","c","r","i","p","t">>

s_HtmlCss == <<"H","T","M","L"," ","a","n","d"," ","C","S","S">>

s_VideoAndText == <<"V","i","d","e","o"," ","a","n","d"," ","T","e","x","t">>

\* learner profiles as recommend_courses may get them: complete, empty (every
\* .get falls back to its default), one whose domain no row has and whose
\* level and style no row has, one whose domain holds a ".", and one whose
\* domain holds an unclosed "("
PureProfiles ==
  {[currentDomain |-> s_WebDevelopment, experienceLevel |-> s_intermediate,
    learningStyle |-> s_video],
   <<>>,
   [currentDomain |-> s_Quantum, experienceLevel |-> s_Advanced,
    learningStyle |-> s_audio],
   [currentDomain |-> s_DotNet, experienceLevel |-> s_Beginner,
    learningStyle |-> s_text],
   [currentDomain |-> s_OpenParen, experienceLevel |-> s_beginner,
    learningStyle |-> s_video]}

\* a gap as analyze_skill_gaps emits it for a skill that was not assessed
pure_gap(name) ==
  [name |-> name, current_level |-> 0, recommended_level |-> 3, priority |-> "High"]

PureGapLists ==
  {<<>>,
   <<pure_gap(s_React)>>,
   <<pure_gap(s_React), pure_gap(s_JavaScript), pure_gap(s_HTML), pure_gap(s_Python)>>}

\* the most rows a catalog of the pure-function runs has
MaxRows == 12

\* the pick-th of the choices, counting round and round from 0
cycle(choices, pick) == choices[(pick % Len(choices)) + 1]

\* row i of a catalog: the titles differ from row to row, the other columns
\* repeat with different periods
pure_row(i) ==
  catalog_row(cycle(<<s_WebDevelopment, s_Internet, s_DataScience>>, i),
              cycle(<<s_ReactJs, s_HtmlCss, s_Python, <<>> >>, i),
              cycle(<<s_Beginner, s_Intermediate, s_Advanced>>, i \div 2),
              cycle(<<s_Video, s_Text, s_VideoAndText>>, i \div 3),
              "Course " \o ToString(i), "Udemy")

pure_catalog(n, columns) ==
  [loaded |-> TRUE, columns |-> columns, rows |-> [i \in 1..n |-> pure_row(i)]]

\* courses.csv absent, empty, or with up to MaxRows rows, with and without
\* the domain column
PureCatalogs ==
  {catalog_none}
    \cup {pure_catalog(n, catalog_columns) : n \in 0..MaxRows}
    \cup {pure_catalog(n, catalog_columns \ {"domain"}) : n \in 0..MaxRows}

InitPure ==
  /\ now = 0
  /\ courses_df \in PureCatalogs
  /\ learner_profiles = <<>>
  /\ skill_assessments = <<>>
  /\ learning_paths = <<>>
  /\ progress_data = <<>>
  /\ call = no_call
  /\ threads = <<>>

CallAnalyze ==
  /\ call = no_call
  /\ \E assessment_skills \in PureSkillLists, target_domain \in PureDomains :
       /\ call' = [fn |-> "analyze",
                   assessment_skills |-> assessment_skills,
                   target_domain |-> target_domain,
                   result |-> analyze_skill_gaps(assessment_skills, target_domain)]
       /\ UNCHANGED <<now, courses_df, tables, threads>>

CallRecommend ==
  /\ call = no_call
  /\ \E learner_profile \in PureProfiles, skill_gaps \in PureGapLists :
       /\ call' = [fn |-> "recommend",
                   learner_profile |-> learner_profile,
                   skill_gaps |-> skill_gaps,
                   result |-> recommend_courses(learner_profile, skills_test,
                                                skill_gaps, courses_df)]
       /\ UNCHANGED <<now, courses_df, tables, threads>>

NextPure ==
  \/ CallAnalyze
  \/ CallRecommend

SpecPure == InitPure /\ [][NextPure]_vars

(* ---------------- handlers on concurrent request threads --------------- *)

\* app.run(debug=True, ...) serves every request on a thread of its own, and
\* no handler takes a lock: a thread can be suspended between any two of its
\* reads and writes of the tables. A thread is [fn, pc, data, path, fresh]:
\* the handler it runs, where it stands, its request body and its locals.

\* the most request threads that are started
MaxThreads == 3

\* the user all concurrent requests are for
conc_user == mint_user_id(0)

\* the tables after the user has registered and submitted an assessment
InitConc ==
  /\ now = 0
  /\ courses_df = catalog_web
  /\ learner_profiles = register_learner(profile_ann, 0, <<>>).profiles
  /\ skill_assessments =
       submit_assessment([userId |-> conc_user, skills |-> [list |-> skills_test]],
                         0, learner_profiles, <<>>).assessments
  /\ learning_paths = <<>>
  /\ progress_data = <<>>
  /\ call = no_call
  /\ threads = <<>>

set_pc(i, pc) == [threads EXCEPT ![i].pc = pc]

StartGeneratePath ==
  /\ Len(threads) < MaxThreads
  /\ threads' = Append(threads,
       [fn |-> "generate", pc |-> "start", data |-> [userId |-> conc_user],
        path |-> <<>>, fresh |-> <<>>])
  /\ UNCHANGED <<now, courses_df, tables, call>>

StartUpdateProgress ==
  /\ Len(threads) < MaxThreads
  /\ threads' = Append(threads,
       [fn |-> "update", pc |-> "start", data |-> update_mixed(conc_user),
        path |-> <<>>, fresh |-> <<>>])
  /\ UNCHANGED <<now, courses_df, tables, call>>

\* app.py 281-335: the checks, the reads of the profile and the assessment,
\* and the path and the progress dict built from them, all in locals
GenBuild(i) ==
  /\ threads[i].fn = "generate" /\ threads[i].pc = "start"
  /\ LET r == generate_learning_path(threads[i].data, now, courses_df,
                learner_profiles, skill_assessments, <<>>, <<>>)
     IN threads' =
          IF r.status = 200
          THEN [threads EXCEPT ![i].pc = "store_path",
                               ![i].path = r.paths[threads[i].data.userId],
                               ![i].fresh = r.progress[threads[i].data.userId]]
          ELSE set_pc(i, "done")
  /\ UNCHANGED <<now, courses_df, tables, call>>

\* app.py 335: learning_paths[user_id] = learning_path
GenStorePath(i) ==
  /\ threads[i].fn = "generate" /\ threads[i].pc = "store_path"
  /\ learning_paths' = put(learning_paths, threads[i].data.userId, threads[i].path)
  /\ threads' = set_pc(i, "check_progress")
  /\ UNCHANGED <<now, courses_df, learner_profiles, skill_assessments, progress_data, call>>

\* app.py 338: if user_id not in progress_data
GenCheckProgress(i) ==
  /\ threads[i].fn = "generate" /\ threads[i].pc = "check_progress"
  /\ threads' = set_pc(i, IF threads[i].data.userId \notin DOMAIN progress_data
                          THEN "init_progress" ELSE "done")
  /\ UNCHANGED <<now, courses_df, tables, call>>

\* app.py 339-349: progress_data[user_id] = {...}, after the dict is built
GenInitProgress(i) ==
  /\ threads[i].fn = "generate" /\ threads[i].pc = "init_progress"
  /\ progress_data' = put(progress_data, threads[i].data.userId, threads[i].fresh)
  /\ threads' = set_pc(i, "done")
  /\ UNCHANGED <<now, courses_df, learner_profiles, skill_assessments, learning_paths, call>>

\* app.py 433-439: the checks of update_progress
UpdCheck(i) ==
  /\ threads[i].fn = "update" /\ threads[i].pc = "start"
  /\ threads' = set_pc(i, IF /\ "userId" \in DOMAIN threads[i].data
                             /\ threads[i].data.userId \in DOMAIN progress_data
                          THEN "apply" ELSE "done")
  /\ UNCHANGED <<now, courses_df, tables, call>>

\* app.py 441-459: the two update loops, run here without interruption
UpdApply(i) ==
  /\ threads[i].fn = "update" /\ threads[i].pc = "apply"
  /\ progress_data' = update_progress(threads[i].data, progress_data).progress
  /\ threads' = set_pc(i, "done")
  /\ UNCHANGED <<now, courses_df, learner_profiles, skill_assessments, learning_paths, call>>

NextConc ==
  \/ StartGeneratePath
  \/ StartUpdateProgress
  \/ \E i \in 1..Len(threads) : GenBuild(i)
  \/ \E i \in 1..Len(threads) : GenStorePath(i)
  \/ \E i \in 1..Len(threads) : GenCheckProgress(i)
  \/ \E i \in 1..Len(threads) : GenInitProgress(i)
  \/ \E i \in 1..Len(threads) : UpdCheck(i)
  \/ \E i \in 1..Len(threads) : UpdApply(i)

SpecConc == InitConc /\ [][NextConc]_vars

(* ------------------------------- claims ------------------------------- *)

\* C1: in every reachable state the tables are nested: every user id with a
\* ProgressRecord has a LearningPath, every one with a LearningPath has a
\* SkillAssessment, and every one with a SkillAssessment has a LearnerProfile.
C1_TablesNested ==
  /\ DOMAIN progress_data \subseteq DOMAIN learning_paths
  /\ DOMAIN learning_paths \subseteq DOMAIN skill_assessments
  /\ DOMAIN skill_assessments \subseteq DOMAIN learner_profiles

\* a user has gone through the whole pipeline while another is only registered
C1_Witness ==
  /\ DOMAIN progress_data # {}
  /\ DOMAIN learner_profiles # DOMAIN skill_assessments

\* C2: a step that overwrites a LearningPath (a successful generatePath)
\* leaves every ProgressRecord that already exists exactly as it was, and
\* the profiles and assessments too.
C2_RegenerationKeepsProgress ==
  [][learning_paths' # learning_paths =>
       /\ \A u \in DOMAIN progress_data :
            u \in DOMAIN progress_data' /\ progress_data'[u] = progress_data[u]
       /\ learner_profiles' = learner_profiles
       /\ skill_assessments' = skill_assessments]_vars

\* the names of the skills of a LearningPath or ProgressRecord, in order
skill_names(rec) == [i \in 1..Len(rec.skills) |-> rec.skills[i].name]

\* a ProgressRecord that updateProgress has written to, beside a LearningPath
\* regenerated from a later, different assessment
C2_Witness ==
  \E u \in DOMAIN progress_data :
    /\ \E i \in 1..Len(progress_data[u].courses) : progress_data[u].courses[i].progress > 0
    /\ \E i \in 1..Len(progress_data[u].skills) : progress_data[u].skills[i].progress > 0
    /\ skill_names(learning_paths[u]) # skill_names(progress_data[u])

\* C3: every successful register call mints a userId that is not yet a key
\* of the profiles table.
C3_RegisterMintsFreshId ==
  \A data \in RegisterBodies :
    LET r == register_learner(data, now, learner_profiles)
    IN r.status = 201 => r.body.userId \notin DOMAIN learner_profiles

\* C4: once a LearnerProfile is stored under a user id, no step changes or
\* removes it.
C4_ProfileNeverChanges ==
  [][\A u \in DOMAIN learner_profiles :
       u \in DOMAIN learner_profiles' /\ learner_profiles'[u] = learner_profiles[u]]_vars

\* C5: generatePath answers 400 exactly when userId is missing, 404 exactly
\* when the user has no LearnerProfile or no SkillAssessment, and otherwise
\* 200 with a LearningPath stored for the user.
C5_GeneratePathSucceeds ==
  \A data \in GeneratePathBodies :
    LET r == generate_learning_path(data, now, courses_df, learner_profiles,
                                    skill_assessments, learning_paths, progress_data)
    IN IF "userId" \notin DOMAIN data
       THEN r.status = 400
       ELSE IF data.userId \notin DOMAIN learner_profiles
               \/ data.userId \notin DOMAIN skill_assessments
       THEN r.status = 404
       ELSE r.status = 200 /\ data.userId \in DOMAIN r.paths

\* C6: whenever a handler answers 400 or 404, the table it writes to is what
\* it was before the call (the other tables no handler touches).
C6_ErrorsLeaveTables ==
  /\ \A data \in RegisterBodies :
       LET r == register_learner(data, now, learner_profiles)
       IN r.status \in {400, 404} => r.profiles = learner_profiles
  /\ \A data \in AssessmentBodies :
       LET r == submit_assessment(data, now, learner_profiles, skill_assessments)
       IN r.status \in {400, 404} => r.assessments = skill_assessments
  /\ \A data \in GeneratePathBodies :
       LET r == generate_learning_path(data, now, courses_df, learner_profiles,
                                       skill_assessments, learning_paths, progress_data)
       IN r.status \in {400, 404} =>
            r.paths = learning_paths /\ r.progress = progress_data
  /\ \A data \in UpdateBodies :
       LET r == update_progress(data, progress_data)
       IN r.status \in {400, 404} => r.progress = progress_data
  /\ \A user_id \in RequestUserIds :
       LET r == get_dashboard_data(user_id, learner_profiles, progress_data)
       IN r.status \in {400, 404} => r.progress = progress_data

\* a registered user without an assessment: generatePath answers 404 for the
\* missing assessment, as do the requests that name an unknown user, and a
\* register call with a missing field answers 400
C6_Witness ==
  /\ learner_profiles # <<>>
  /\ \E data \in GeneratePathBodies :
       /\ "userId" \in DOMAIN data
       /\ data.userId \in DOMAIN learner_profiles
       /\ generate_learning_path(data, now, courses_df, learner_profiles,
            skill_assessments, learning_paths, progress_data).status = 404
  /\ \E data \in AssessmentBodies :
       submit_assessment(data, now, learner_profiles, skill_assessments).status = 404
  /\ \E data \in UpdateBodies : update_progress(data, progress_data).status = 404
  /\ \E data \in RegisterBodies :
       register_learner(data, now, learner_profiles).status = 400

\* C7: updateProgress is all-or-nothing: a call that does not answer 200
\* leaves the ProgressRecord table as it was.
C7_UpdateAllOrNothing ==
  \A data \in UpdateBodies :
    LET r == update_progress(data, progress_data)
    IN r.status # 200 => r.progress = progress_data

\* the entries of a request list that carry the key an entry is matched by
entries_of(data, list, key) ==
  IF list \in DOMAIN data
  THEN {k \in 1..Len(data[list]) : key \in DOMAIN data[list][k]}
  ELSE {}

\* the entries of the request that are applied to element i of seq: those
\* whose key equals the element's and that no earlier element has
hits(data, list, key, seq, i) ==
  {k \in entries_of(data, list, key) :
     /\ data[list][k][key] = seq[i][key]
     /\ \A j \in 1..(i - 1) : seq[j][key] # seq[i][key]}

\* the largest element of a non-empty set of numbers
last_of(S) == CHOOSE k \in S : \A j \in S : j <= k

\* what one successful call may leave of course i: untouched when no entry
\* is applied to it, else the progress of the last entry applied and the
\* status the last applied entry with a progress other than 0 stands for
course_as_claimed(data, old, new, i) ==
  LET h == hits(data, "courseProgress", "title", old, i)
      nz == {k \in h : data.courseProgress[k].progress # 0}
  IN IF h = {}
     THEN new[i] = old[i]
     ELSE /\ new[i].title = old[i].title
          /\ new[i].provider = old[i].provider
          /\ new[i].progress = data.courseProgress[last_of(h)].progress
          /\ IF nz = {}
             THEN new[i].status = old[i].status
             ELSE LET p == data.courseProgress[last_of(nz)].progress
                  IN /\ p = 100 => new[i].status = "completed"
                     /\ (0 < p /\ p < 100) => new[i].status = "in-progress"

\* what one successful call may leave of skill i
skill_as_claimed(data, old, new, i) ==
  LET h == hits(data, "skillProgress", "name", old, i)
  IN IF h = {}
     THEN new[i] = old[i]
     ELSE /\ new[i].name = old[i].name
          /\ new[i].level = old[i].level
          /\ new[i].progress = data.skillProgress[last_of(h)].progress

\* every entry of the request has the key it is matched by and a progress
well_formed_update(data) ==
  /\ \A k \in 1..(IF "skillProgress" \in DOMAIN data THEN Len(data.skillProgress) ELSE 0) :
       {"name", "progress"} \subseteq DOMAIN data.skillProgress[k]
  /\ \A k \in 1..(IF "courseProgress" \in DOMAIN data THEN Len(data.courseProgress) ELSE 0) :
       {"title", "progress"} \subseteq DOMAIN data.courseProgress[k]

\* C8: a successful updateProgress call overwrites, for each entry, the
\* progress of the first course with the entry's title (status completed at
\* 100, in-progress between 0 and 100, unchanged at 0) and of the first skill
\* with the entry's name; whatever no entry matches is left as it was, no
\* other user's record changes, and a call whose entries are all well formed
\* answers 200 for a user with a ProgressRecord, matched or not.
C8_UpdateApplied ==
  \A data \in UpdateBodies :
    LET r == update_progress(data, progress_data)
    IN /\ r.status = 200 =>
            LET old == progress_data[data.userId]
                new == r.progress[data.userId]
            IN /\ DOMAIN r.progress = DOMAIN progress_data
               /\ \A u \in DOMAIN progress_data \ {data.userId} :
                    r.progress[u] = progress_data[u]
               /\ Len(new.courses) = Len(old.courses)
               /\ Len(new.skills) = Len(old.skills)
               /\ \A i \in 1..Len(old.courses) :
                    course_as_claimed(data, old.courses, new.courses, i)
               /\ \A i \in 1..Len(old.skills) :
                    skill_as_claimed(data, old.skills, new.skills, i)
       /\ ( /\ "userId" \in DOMAIN data
            /\ data.userId \in DOMAIN progress_data
            /\ well_formed_update(data) ) => r.status = 200

\* a record on which entries with progress 100, 0 and 60 have been applied:
\* the first of two courses with the same title is completed with progress
\* 0, the second was never touched, a third is in progress
C8_Witness ==
  \E u \in DOMAIN progress_data :
    LET courses == progress_data[u].courses
    IN \E i, j, k \in 1..Len(courses) :
         /\ i < j
         /\ courses[i].title = courses[j].title
         /\ courses[i].status = "completed" /\ courses[i].progress = 0
         /\ courses[j].status = "not-started" /\ courses[j].progress = 0
         /\ courses[k].status = "in-progress" /\ courses[k].progress = 60

\* C9: in every reachable state every skill entry and every course entry of
\* every ProgressRecord has a progress between 0 and 100, and every course
\* entry a status among not-started, in-progress, completed.
C9_ProgressInRange ==
  \A u \in DOMAIN progress_data :
    /\ \A i \in 1..Len(progress_data[u].skills) :
         progress_data[u].skills[i].progress \in 0..100
    /\ \A i \in 1..Len(progress_data[u].courses) :
         /\ progress_data[u].courses[i].progress \in 0..100
         /\ progress_data[u].courses[i].status \in {"not-started", "in-progress", "completed"}

\* whether an entry of a ProgressRecord counts as completed, in-progress
\* or mastered
counts_as(kind, entry) ==
  IF kind = "completed" THEN entry.progress = 100
  ELSE IF kind = "in-progress" THEN 0 < entry.progress /\ entry.progress < 100
  ELSE entry.progress >= 80

\* the number of entries of seq, from index i on, that count as kind
RECURSIVE count_from(_, _, _)
count_from(seq, i, kind) ==
  IF i > Len(seq) THEN 0
  ELSE (IF counts_as(kind, seq[i]) THEN 1 ELSE 0) + count_from(seq, i + 1, kind)

\* C10: the statistics getDashboard returns are those of the ProgressRecord
\* of the state it is called in: the course count, the courses at exactly
\* 100, those strictly between 0 and 100, the skills at 80 or more, and the
\* mean course progress in tenths (the nearest tenth, 0 without courses); so
\* completed + in progress never exceeds the total.
C10_DashboardStatistics ==
  \A user_id \in RequestUserIds :
    LET r == get_dashboard_data(user_id, learner_profiles, progress_data)
    IN r.status = 200 =>
         LET rec == IF user_id \in DOMAIN progress_data
                    THEN progress_data[user_id]
                    ELSE [skills |-> <<>>, courses |-> <<>>]
             st == r.body.dashboard.statistics
             n == Len(rec.courses)
             total == sum_progress(rec.courses, 1)
             gap == 10 * total - n * st.overallProgress
         IN /\ st.totalCourses = n
            /\ st.completedCourses = count_from(rec.courses, 1, "completed")
            /\ st.inProgressCourses = count_from(rec.courses, 1, "in-progress")
            /\ r.body.dashboard.summary.masteredSkills = count_from(rec.skills, 1, "mastered")
            /\ IF n = 0 THEN st.overallProgress = 0
               ELSE 2 * gap <= n /\ -2 * gap <= n
            /\ st.completedCourses + st.inProgressCourses <= st.totalCourses

\* a dashboard over a record with a completed course, a course above 100
\* and a mastered skill, whose mean is no whole number of tenths
C10_Witness ==
  \E user_id \in RequestUserIds :
    /\ user_id \in DOMAIN progress_data
    /\ \E i \in 1..Len(progress_data[user_id].courses) :
         progress_data[user_id].courses[i].progress > 100
    /\ LET d == get_dashboard_data(user_id, learner_profiles, progress_data).body.dashboard
       IN /\ d.statistics.completedCourses >= 1
          /\ d.summary.masteredSkills >= 1
          /\ (10 * sum_progress(d.courses, 1)) % d.statistics.totalCourses # 0

\* C11: getDashboard answers 404 for a user id without a LearnerProfile and
\* 200 for one with a profile; without a ProgressRecord the 200 answer has
\* empty skill and course lists and every statistic 0; and the call stores
\* nothing, in particular no empty ProgressRecord.
C11_DashboardLenientReadOnly ==
  \A user_id \in RequestUserIds :
    LET r == get_dashboard_data(user_id, learner_profiles, progress_data)
    IN /\ r.progress = progress_data
       /\ user_id \notin DOMAIN learner_profiles => r.status = 404
       /\ user_id \in DOMAIN learner_profiles => r.status = 200
       /\ (user_id \in DOMAIN learner_profiles /\ user_id \notin DOMAIN progress_data) =>
            LET d == r.body.dashboard
            IN /\ d.skills = <<>> /\ d.courses = <<>>
               /\ \A k \in DOMAIN d.statistics : d.statistics[k] = 0
               /\ \A k \in DOMAIN d.summary : d.summary[k] = 0

\* a user with a profile and an assessment but no ProgressRecord yet, beside
\* an id that has no profile
C11_Witness ==
  /\ \E user_id \in RequestUserIds :
       user_id \in DOMAIN skill_assessments /\ user_id \notin DOMAIN progress_data
  /\ \E user_id \in RequestUserIds : user_id \notin DOMAIN learner_profiles

\* the required-skill list analyze works on for a target domain
selected_skills(target_domain) == match_domain(normalize_domain(target_domain), 1)

\* the assessed skills whose name contains the required skill, whatever the case
matching_assessed(skill, assessment_skills) ==
  {k \in 1..Len(assessment_skills) :
     contains(lower(assessment_skills[k].name), lower(skill))}

\* the gaps emitted for one required skill
gaps_named(skill_gaps, skill) ==
  {k \in 1..Len(skill_gaps) : skill_gaps[k].name = skill}

\* C12, as claimed: a required skill gets no gap if SOME matching assessed
\* skill has a level above 2.
C12_AnyStrongMatchCovers ==
  call.fn = "analyze" =>
    \A i \in 1..Len(selected_skills(call.target_domain)) :
      LET skill == selected_skills(call.target_domain)[i]
          m == matching_assessed(skill, call.assessment_skills)
      IN (\E k \in m : call.assessment_skills[k].level > 2) =>
           gaps_named(call.result.value, skill) = {}

\* C12, amended: for lists of {name, level} entries the FIRST assessed skill
\* in list order that matches a required skill decides: level above 2, no
\* gap; level 2 or less, one gap with that level and recommended level 4; no
\* match at all, one gap with level 0 and recommended level 3. Web
\* Development with the skills of test_api.py gives gaps exactly for HTML,
\* CSS, React, Node.js and Database Design.
C12_FirstMatchDecides ==
  call.fn = "analyze" =>
    /\ ~call.result.raised
    /\ \A i \in 1..Len(selected_skills(call.target_domain)) :
         LET skill == selected_skills(call.target_domain)[i]
             m == matching_assessed(skill, call.assessment_skills)
             g == gaps_named(call.result.value, skill)
         IN IF m = {}
            THEN /\ Cardinality(g) = 1
                 /\ \A k \in g : /\ call.result.value[k].current_level = 0
                                 /\ call.result.value[k].recommended_level = 3
            ELSE LET first == CHOOSE k \in m : \A j \in m : k <= j
                     level == call.assessment_skills[first].level
                 IN IF level > 2
                    THEN g = {}
                    ELSE /\ Cardinality(g) = 1
                         /\ \A k \in g : /\ call.result.value[k].current_level = level
                                         /\ call.result.value[k].recommended_level = 4
    /\ (call.target_domain = s_WebDevelopment /\ call.assessment_skills = skills_test) =>
         [k \in 1..Len(call.result.value) |-> call.result.value[k].name]
           = <<s_HTML, s_CSS, s_React, s_NodeJs, s_DatabaseDesign>>

\* a call in which a weak match comes before a strong match of the same
\* required skill, and the weak one has produced the gap
C12_Witness ==
  /\ call.fn = "analyze"
  /\ call.assessment_skills =
       <<[name |-> s_React, level |-> 1], [name |-> s_ReactNative, level |-> 4]>>
  /\ call.target_domain = s_WebDevelopment
  /\ \E k \in 1..Len(call.result.value) :
       call.result.value[k].name = s_React /\ call.result.value[k].current_level = 1

\* the rows the claims call candidates: those whose domain contains the
\* profile's currentDomain, or every row when none does or when the catalog
\* has no domain column
claimed_candidates(learner_profile, df) ==
  LET target == lower(profile_get(learner_profile, "currentDomain", <<>>))
      hit == IF "domain" \in df.columns
             THEN {i \in 1..Len(df.rows) : contains(lower(df.rows[i]["domain"]), target)}
             ELSE {}
  IN IF hit = {} THEN 1..Len(df.rows) ELSE hit

\* the score the claims give a row
claimed_score(learner_profile, skill_gaps, df, i) ==
  LET course == df.rows[i]
      skills == lower(row_get(df.columns, course, "skills", <<>>))
      level == lower(row_get(df.columns, course, "level", s_beginner))
      format == lower(row_get(df.columns, course, "format", s_video))
      experience == lower(profile_get(learner_profile, "experienceLevel", s_beginner))
      style == lower(profile_get(learner_profile, "learningStyle", s_video))
  IN 3 * Cardinality({k \in 1..Len(skill_gaps) :
                        contains(skills, lower(skill_gaps[k].name))})
     + (IF experience = level THEN 2 ELSE 0)
     + (IF contains(format, style) THEN 1 ELSE 0)

\* the catalog is absent or has no rows or no columns
catalog_empty(df) == ~df.loaded \/ df.rows = <<>> \/ df.columns = {}

\* C13: recommend returns a list of at least 1 and at most 10 entries for
\* every profile, gap list and catalog; when the catalog is absent or empty,
\* or no candidate row scores at least 1, the list is the fallback course
\* (score 5) alone.
C13_NeverEmptyAtMostTen ==
  call.fn = "recommend" =>
    /\ ~call.result.raised
    /\ Len(call.result.value) \in 1..10
    /\ (\/ catalog_empty(courses_df)
        \/ \A i \in claimed_candidates(call.learner_profile, courses_df) :
             claimed_score(call.learner_profile, call.skill_gaps, courses_df, i) < 1)
         => /\ call.result.value = <<fallback_course>>
            /\ call.result.value[1].score = 5

\* the candidate rows recommend_courses scores, as a set of row numbers
scored_candidates(learner_profile, skill_gaps, df) ==
  LET idx == domain_course_rows(df,
               lower(profile_get(learner_profile, "currentDomain", <<>>)))
  IN {idx[k] : k \in 1..Len(idx)}

\* row i ranks before row j: higher score, or equal score and earlier in the catalog
ranks_before(learner_profile, skill_gaps, df, i, j) ==
  LET si == claimed_score(learner_profile, skill_gaps, df, i)
      sj == claimed_score(learner_profile, skill_gaps, df, j)
  IN si > sj \/ (si = sj /\ i < j)

\* C14: the list recommend returns is sorted by score, highest first; rows of
\* equal score keep their catalog order; every returned catalog row scores
\* at least 1; and the list holds the 10 highest-ranked scored candidates,
\* or all of them when they are fewer than 10.
C14_SortedStableTopTen ==
  (call.fn = "recommend" /\ ~call.result.raised /\ ~catalog_empty(courses_df)) =>
    LET value == call.result.value
        scored == {i \in scored_candidates(call.learner_profile, call.skill_gaps, courses_df) :
                     claimed_score(call.learner_profile, call.skill_gaps, courses_df, i) >= 1}
        rank(i) == Cardinality({j \in scored :
                     ranks_before(call.learner_profile, call.skill_gaps, courses_df, j, i)})
    IN /\ \A k \in 1..Len(value), l \in 1..Len(value) :
            k < l => value[k].score >= value[l].score
       /\ scored # {} =>
            /\ Len(value) = IF Cardinality(scored) < 10 THEN Cardinality(scored) ELSE 10
            /\ \A i \in scored :
                 rank(i) < 10 =>
                   /\ value[rank(i) + 1].title = courses_df.rows[i].title
                   /\ value[rank(i) + 1].score =
                        claimed_score(call.learner_profile, call.skill_gaps, courses_df, i)
                   /\ value[rank(i) + 1].score >= 1

\* a call that returned 10 rows of a catalog in which more than 10 candidates
\* scored, two of the returned rows tie, and some row scored nothing
C14_Witness ==
  /\ call.fn = "recommend"
  /\ ~call.result.raised
  /\ ~catalog_empty(courses_df)
  /\ Len(call.result.value) = 10
  /\ Cardinality({i \in scored_candidates(call.learner_profile, call.skill_gaps, courses_df) :
       claimed_score(call.learner_profile, call.skill_gaps, courses_df, i) >= 1}) > 10
  /\ \E i \in 1..Len(courses_df.rows) :
       claimed_score(call.learner_profile, call.skill_gaps, courses_df, i) = 0
  /\ \E k \in 1..9 : call.result.value[k].score = call.result.value[k + 1].score

\* the sum of the levels of the first n entries, a missing level counting 0
RECURSIVE level_total(_, _)
level_total(skills, n) ==
  IF n = 0 THEN 0
  ELSE level_total(skills, n - 1)
       + (IF "level" \in DOMAIN skills[n] THEN skills[n].level ELSE 0)

\* the totals of a stored assessment are those of its skills list
totals_of_own_list(a) ==
  /\ a.totalSkills = Len(a.skills)
  /\ a.totalScore = level_total(a.skills, Len(a.skills))

\* averageLevel (kept in hundredths) is exactly totalScore / totalSkills
average_exact(a) ==
  IF a.totalSkills = 0 THEN a.averageLevel = 0
  ELSE a.averageLevel * a.totalSkills = 100 * a.totalScore

\* averageLevel is the hundredth nearest to totalScore / totalSkills
average_rounded(a) ==
  IF a.totalSkills = 0 THEN a.averageLevel = 0
  ELSE LET off == 100 * a.totalScore - a.averageLevel * a.totalSkills
       IN 2 * off <= a.totalSkills /\ -2 * off <= a.totalSkills

\* a step that changes the assessments table is a successful submitAssessment:
\* it stores that request's list under that request's user id, touches no
\* other user's assessment and no other table
only_submission_stores ==
  skill_assessments' # skill_assessments =>
    /\ UNCHANGED <<learner_profiles, learning_paths, progress_data>>
    /\ \E data \in AssessmentBodies :
         /\ "userId" \in DOMAIN data /\ "skills" \in DOMAIN data
         /\ is_list(data.skills)
         /\ data.userId \in DOMAIN learner_profiles
         /\ DOMAIN skill_assessments' = DOMAIN skill_assessments \cup {data.userId}
         /\ skill_assessments'[data.userId].skills = data.skills.list
         /\ \A u \in DOMAIN skill_assessments :
              u # data.userId => skill_assessments'[u] = skill_assessments[u]

\* C15, as claimed, for the stored fields: every stored SkillAssessment has
\* totalSkills the length of its list, totalScore the sum of the levels, and
\* averageLevel exactly totalScore / totalSkills (0 for the empty list).
C15_AverageIsQuotient ==
  \A u \in DOMAIN skill_assessments :
    totals_of_own_list(skill_assessments[u]) /\ average_exact(skill_assessments[u])

\* C15, amended: as above, with averageLevel the quotient rounded to two
\* decimals; only submitAssessment changes a stored assessment.
C15_AssessmentIsLastSubmission ==
  /\ [](\A u \in DOMAIN skill_assessments :
          totals_of_own_list(skill_assessments[u]) /\ average_rounded(skill_assessments[u]))
  /\ [][only_submission_stores]_vars

\* a resubmission has replaced the assessment a path was generated from; the
\* new list has an entry without level and an average of 5/3
C15_Witness ==
  \E u \in DOMAIN skill_assessments :
    /\ u \in DOMAIN learning_paths
    /\ skill_assessments[u].skills = skills_nameless
    /\ skill_assessments[u].totalScore = 5
    /\ skill_assessments[u].averageLevel = 167

\* the ProgressRecord has one fresh entry per skill and per course of the path
fresh_record_of(record, path) ==
  /\ Len(record.skills) = Len(path.skills)
  /\ \A k \in 1..Len(path.skills) :
       record.skills[k] = [name |-> path.skills[k].name, progress |-> 0,
                           level |-> path.skills[k].level]
  /\ Len(record.courses) = Len(path.courses)
  /\ \A k \in 1..Len(path.courses) :
       record.courses[k] = [title |-> path.courses[k].title,
                            provider |-> path.courses[k].provider,
                            progress |-> 0, status |-> "not-started"]

\* the step that stores a user's first LearningPath
first_path_stored(u) == u \notin DOMAIN learning_paths /\ u \in DOMAIN learning_paths'

\* C17: the first successful generatePath of a user creates a ProgressRecord
\* with one entry per recommended skill (name and level label copied,
\* progress 0) and one per recommended course (title and provider copied,
\* progress 0, status not-started), in the path's order; and every stored
\* LearningPath has totalSkills and totalCourses equal to the lengths of its
\* lists.
C17_FirstPathInitialisesProgress ==
  /\ [](\A u \in DOMAIN learning_paths :
          /\ learning_paths[u].totalSkills = Len(learning_paths[u].skills)
          /\ learning_paths[u].totalCourses = Len(learning_paths[u].courses))
  /\ [][\A u \in RequestUserIds :
          first_path_stored(u) =>
            /\ u \notin DOMAIN progress_data
            /\ u \in DOMAIN progress_data'
            /\ fresh_record_of(progress_data'[u], learning_paths'[u])]_vars

\* a first path with skills of two different level labels and several
\* courses, its ProgressRecord still as created
C17_Witness ==
  \E u \in DOMAIN learning_paths :
    /\ u \in DOMAIN progress_data
    /\ fresh_record_of(progress_data[u], learning_paths[u])
    /\ Len(learning_paths[u].courses) > 1
    /\ \E k, l \in 1..Len(learning_paths[u].skills) :
         learning_paths[u].skills[k].level # learning_paths[u].skills[l].level

key_computer_science == <<"c","o","m","p","u","t","e","r","-","s","c","i","e","n","c","e">>

key_data_science == <<"d","a","t","a","-","s","c","i","e","n","c","e">>

key_web_development == <<"w","e","b","-","d","e","v","e","l","o","p","m","e","n","t">>

key_mobile_development == <<"m","o","b","i","l","e","-","d","e","v","e","l","o","p","m","e","n","t">>

key_cybersecurity == <<"c","y","b","e","r","s","e","c","u","r","i","t","y">>

key_ai_ml == <<"a","i","-","m","l">>

key_business == <<"b","u","s","i","n","e","s","s">>

key_design == <<"d","e","s","i","g","n">>

key_marketing == <<"m","a","r","k","e","t","i","n","g">>

\* the domain keys in the order the claim gives
claimed_keys ==
  <<key_computer_science, key_data_science, key_web_development,
    key_mobile_development, key_cybersecurity, key_ai_ml, key_business,
    key_design, key_marketing>>

\* the required-skill list the table holds for a key
skills_of_key(key) ==
  domain_requirements[CHOOSE i \in 1..Len(domain_requirements) :
                        domain_requirements[i].domain = key].skills

\* the list of the first key that contains the normalized target or is
\* contained in it; the data-science list when there is none
claimed_selected(target_domain) ==
  LET n == normalize_domain(target_domain)
      m == {i \in 1..Len(claimed_keys) :
              contains(n, claimed_keys[i]) \/ contains(claimed_keys[i], n)}
  IN IF m = {} THEN skills_of_key(key_data_science)
     ELSE skills_of_key(claimed_keys[CHOOSE i \in m : \A j \in m : i <= j])

\* C18: analyze works on the list of the first key, in the order
\* computer-science, data-science, web-development, mobile-development,
\* cybersecurity, ai-ml, business, design, marketing, that contains the
\* normalized target (lower case, trimmed, hyphens for spaces) or is contained
\* in it, and on the data-science list when no key matches; the gaps are a
\* subsequence of that list, in its order, no skill twice; every skill of
\* the list that no assessed skill matches is among them.
C18_DomainSelection ==
  call.fn = "analyze" =>
    LET list == claimed_selected(call.target_domain)
        names == [k \in 1..Len(call.result.value) |-> call.result.value[k].name]
        pos(name) == CHOOSE i \in 1..Len(list) : list[i] = name
    IN /\ [i \in 1..Len(domain_requirements) |-> domain_requirements[i].domain]
            = claimed_keys
       /\ normalize_domain(s_AiMlPadded) = key_ai_ml
       /\ normalize_domain(s_MobileAndDesign) # key_mobile_development
       /\ \A k \in 1..Len(names) : \E i \in 1..Len(list) : list[i] = names[k]
       /\ \A k \in 1..Len(names), l \in 1..Len(names) :
            k < l => pos(names[k]) < pos(names[l])
       /\ \A i \in 1..Len(list) :
            matching_assessed(list[i], call.assessment_skills) = {}
              => \E k \in 1..Len(names) : names[k] = list[i]
       /\ call.assessment_skills = <<>> => names = list

\* a call whose target matches no key, answered from the data-science list
\* with Python covered: Statistics, Machine Learning and Data Analysis remain
C18_Witness ==
  /\ call.fn = "analyze"
  /\ call.target_domain = s_Quantum
  /\ call.assessment_skills # <<>>
  /\ Len(call.result.value) = 3
  /\ [k \in 1..3 |-> call.result.value[k].name]
       = Tail(skills_of_key(key_data_science))

\* C19: every candidate row is scored 3 per skill gap whose name occurs in
\* its skills, plus 2 if the profile's experienceLevel equals its level, plus
\* 1 if the profile's learningStyle occurs in its format, all regardless of
\* case; the candidates are the rows whose domain contains the profile's
\* currentDomain, or all rows when no row does or there is no domain column.
C19_ScoreAndCandidates ==
  (call.fn = "recommend" /\ ~catalog_empty(courses_df)) =>
    /\ ~call.result.raised
    /\ scored_candidates(call.learner_profile, call.skill_gaps, courses_df)
         = claimed_candidates(call.learner_profile, courses_df)
    /\ \A i \in claimed_candidates(call.learner_profile, courses_df) :
         course_score(call.learner_profile, call.skill_gaps,
                      courses_df.columns, courses_df.rows[i])
           = claimed_score(call.learner_profile, call.skill_gaps, courses_df, i)

\* C20: the userId field of every stored LearnerProfile, SkillAssessment and
\* LearningPath is the key the record is stored under, whatever fields the
\* register body had, and register returns that same id to the caller.
C20_UserIdFieldIsKey ==
  /\ \A u \in DOMAIN learner_profiles : learner_profiles[u].userId = u
  /\ \A u \in DOMAIN skill_assessments : skill_assessments[u].userId = u
  /\ \A u \in DOMAIN learning_paths : learning_paths[u].userId = u
  /\ \A data \in RegisterBodies :
       LET r == register_learner(data, now, learner_profiles)
       IN r.status = 201 =>
            /\ r.body.userId \in DOMAIN r.profiles
            /\ r.profiles[r.body.userId].userId = r.body.userId

\* a generatePath thread takes a step
generate_step ==
  \E i \in 1..Len(threads) : threads[i].fn = "generate" /\ threads'[i] # threads[i]

\* C16: with the handlers' reads and writes interleaved, no step of a
\* generatePath call changes a ProgressRecord that already exists, so progress
\* an updateProgress call has written is never put back to 0 / not-started.
C16_InitialisedOnceWhenInterleaved ==
  [][generate_step =>
       \A u \in DOMAIN progress_data :
         u \in DOMAIN progress_data' /\ progress_data'[u] = progress_data[u]]_vars

\* the course entries of a record that carry a status
with_status(courses, status) == {i \in 1..Len(courses) : courses[i].status = status}

\* the completedCourses figure getDashboard reports for a user
reported_completed(u) ==
  get_dashboard_data(u, learner_profiles, progress_data).body.dashboard.statistics.completedCourses

\* C21, as claimed: a course entry is 'completed' exactly when its progress
\* is 100, 'in-progress' exactly when 0 < progress < 100, and 'not-started'
\* exactly when its progress is 0; so getDashboard's completed count is the
\* number of entries whose status is 'completed'.
C21_StatusAgreesWithProgress ==
  \A u \in DOMAIN progress_data :
    LET courses == progress_data[u].courses
    IN /\ \A i \in 1..Len(courses) :
            /\ courses[i].status = "completed" <=> courses[i].progress = 100
            /\ courses[i].status = "in-progress" <=>
                 (0 < courses[i].progress /\ courses[i].progress < 100)
            /\ courses[i].status = "not-started" <=> courses[i].progress = 0
       /\ reported_completed(u) = Cardinality(with_status(courses, "completed"))

\* C21, amended: the status follows the progress only in one direction. An
\* entry with progress 100 is 'completed' and one with any other progress
\* above 0 is 'in-progress'; an entry that is 'not-started' has no progress
\* above 0; an entry with progress 0 or less may carry any status, the one
\* it had before. getDashboard counts the entries with progress 100, which
\* are among the 'completed' ones and need not be all of them.
C21_StatusFollowsPositiveProgress ==
  \A u \in DOMAIN progress_data :
    LET courses == progress_data[u].courses
    IN /\ \A i \in 1..Len(courses) :
            /\ courses[i].progress = 100 => courses[i].status = "completed"
            /\ (courses[i].progress > 0 /\ courses[i].progress # 100)
                 => courses[i].status = "in-progress"
            /\ courses[i].status = "not-started" => courses[i].progress <= 0
            /\ courses[i].status \in {"not-started", "in-progress", "completed"}
       /\ reported_completed(u) =
            Cardinality({i \in with_status(courses, "completed") : courses[i].progress = 100})
       /\ reported_completed(u) <= Cardinality(with_status(courses, "completed"))

\* progress 100 and then 0 were written to a course: its entry is still
\* 'completed', and getDashboard counts no completed course
C21_Witness ==
  \E u \in DOMAIN progress_data :
    LET courses == progress_data[u].courses
    IN /\ \E i \in 1..Len(courses) :
            courses[i].status = "completed" /\ courses[i].progress = 0
       /\ \E i \in 1..Len(courses) :
            courses[i].status = "in-progress" /\ courses[i].progress \in 1..99
       /\ reported_completed(u) = 0
       /\ Cardinality(with_status(courses, "completed")) = 1

\* the titles of the courses of a LearningPath or ProgressRecord, in order
course_titles(rec) == [i \in 1..Len(rec.courses) |-> rec.courses[i].title]

\* C22, as claimed: in every reachable state a user's ProgressRecord has the
\* skill names and the course titles of that user's stored LearningPath, in
\* the same order, also after a regeneration from a different assessment.
C22_ProgressTracksCurrentPath ==
  \A u \in DOMAIN progress_data :
    /\ u \in DOMAIN learning_paths
    /\ skill_names(progress_data[u]) = skill_names(learning_paths[u])
    /\ course_titles(progress_data[u]) = course_titles(learning_paths[u])

\* C22, amended: a ProgressRecord has the skill names and course titles of
\* the LearningPath stored in the step that created it, the first path of
\* its user id, and no later step changes them; a user with a ProgressRecord
\* has a LearningPath, whose names may differ after a regeneration.
C22_ProgressTracksFirstPath ==
  /\ [](DOMAIN progress_data \subseteq DOMAIN learning_paths)
  /\ [][\A u \in DOMAIN progress_data' :
          IF u \in DOMAIN progress_data
          THEN /\ skill_names(progress_data'[u]) = skill_names(progress_data[u])
               /\ course_titles(progress_data'[u]) = course_titles(progress_data[u])
          ELSE /\ u \notin DOMAIN learning_paths
               /\ skill_names(progress_data'[u]) = skill_names(learning_paths'[u])
               /\ course_titles(progress_data'[u]) = course_titles(learning_paths'[u])]_vars

\* the user has resubmitted the empty assessment and regenerated: the path
\* names more skills than the ProgressRecord, which has been written to
C22_Witness ==
  \E u \in DOMAIN progress_data :
    /\ skill_assessments[u].skills = <<>>
    /\ learner_profiles[u].currentDomain = s_WebDevelopment
    /\ Len(learning_paths[u].skills) > Len(progress_data[u].skills)
    /\ \E i \in 1..Len(progress_data[u].courses) : progress_data[u].courses[i].progress > 0

=============================================================================
